---- MODULE Spec2Model ----
(***************************************************************************)
(* Model of guid-generate (src/src/main.cc): arith::rotl, generate_guid    *)
(* with its mkseed lambda and the four std::mt19937 engines, to_string,    *)
(* arguments and main.                                                     *)
(*                                                                         *)
(* A machine word is a sequence of bits, least significant bit first, as   *)
(* long as the C++ type is wide: the 32-bit and 64-bit values of the       *)
(* program do not fit the integers of the model checker, and a sequence    *)
(* keeps the width of every shift.  A 32-bit word of an engine is kept as  *)
(* a pair <<high half, low half>> of 16-bit numbers.                       *)
(***************************************************************************)
EXTENDS Integers, Sequences, FiniteSets, TLC

\* ------------------------------------------------------------ bit words

Pow2(n) == 2 ^ n

\* The natural number n (below 2^31) as a word of w bits.
Bits(n, w) == [k \in 1..w |-> IF k > 31 THEN 0 ELSE (n \div Pow2(k - 1)) % 2]

RECURSIVE Val(_)
\* The number a word of fewer than 31 bits stands for.
Val(b) == IF Len(b) = 0 THEN 0 ELSE b[1] + 2 * Val(Tail(b))

Zero(w) == [k \in 1..w |-> 0]

\* Conversion of an unsigned value to an unsigned type w bits wide.
ZeroExt(b, w) == [k \in 1..w |-> IF k <= Len(b) THEN b[k] ELSE 0]

\* Conversion of a signed value to an unsigned type w bits wide.
SignExt(b, w) == [k \in 1..w |-> IF k <= Len(b) THEN b[k] ELSE b[Len(b)]]

BXor(a, b) == [k \in 1..Len(a) |-> (a[k] + b[k]) % 2]
BOr(a, b) == [k \in 1..Len(a) |-> IF a[k] + b[k] > 0 THEN 1 ELSE 0]
BAnd(a, b) == [k \in 1..Len(a) |-> a[k] * b[k]]

\* x << n and x >> n on an unsigned word, 0 <= n < width.
Shl(a, n) == [k \in 1..Len(a) |-> IF k > n THEN a[k - n] ELSE 0]
Shr(a, n) == [k \in 1..Len(a) |-> IF k + n <= Len(a) THEN a[k + n] ELSE 0]

\* The C++ remainder a % b for b > 0: the quotient is truncated towards zero.
CRem(a, b) == IF a >= 0 THEN a % b ELSE -((-a) % b)

\* The type the operands of << >> | have after the integral promotions:
\* a type narrower than int becomes int.
PromotedWidth(w) == IF w < 32 THEN 32 ELSE w

\* rotl with a negative remainder rotated to the left as well.
RotlNegAsLeft(x, s) ==
    LET N == Len(x)
        P == PromotedWidth(N)
        r == CRem(s, N)
        px == ZeroExt(x, P)
    IN  IF r = 0 THEN x
        ELSE IF r > 0
             THEN ZeroExt(BOr(Shl(px, r), Shr(px, (N - r) % N)), N)
             ELSE ZeroExt(BOr(Shl(px, -r), Shr(px, (N + r) % N)), N)

\* arith::rotl<T>(x, s), T an unsigned type of Len(x) bits.
rotl(x, s) ==
    LET N == Len(x)
        P == PromotedWidth(N)
        r == CRem(s, N)
        px == ZeroExt(x, P)
    IN  IF r = 0 THEN x
        ELSE IF r > 0
             THEN ZeroExt(BOr(Shl(px, r), Shr(px, (N - r) % N)), N)
             ELSE ZeroExt(BOr(Shr(px, -r), Shl(px, (N + r) % N)), N)

\* ------------------------------------------------------------ mkseed

\* SEED_OFFSET, 0x271d8a39.
SEED_OFFSET == 656247353

\* seed_type(b) for an element b of the seed container, a char holding the
\* byte value c: a plain char is signed or unsigned as the platform has it.
CharToSeedType(c, w, charSigned) ==
    IF charSigned THEN SignExt(Bits(c, 8), w) ELSE ZeroExt(Bits(c, 8), w)

\* The accumulate step of mkseed: rotl(acc ^ ((acc << 8) | seed_type(b)), rot).
FoldStep(acc, c, rot, charSigned) ==
    rotl(BXor(acc, BOr(Shl(acc, 8), CharToSeedType(c, Len(acc), charSigned))), rot)

RECURSIVE Accumulate(_, _, _, _)
\* std::accumulate(seed.begin(), seed.end(), seed_type(ofs), step).
Accumulate(seed, acc, rot, charSigned) ==
    IF Len(seed) = 0 THEN acc
    ELSE Accumulate(Tail(seed), FoldStep(acc, Head(seed), rot, charSigned), rot, charSigned)

\* A test that takes a seed of one byte for empty too.
SeedEmptyShort(seed) == Len(seed) <= 1

\* seed.empty().
SeedEmpty(seed) == Len(seed) = 0

\* The lambda mkseed(seed, ofs, rot) of generate_guid; ofs is a seed_type.
\* dev holds the values random_device()() has yet to return, in order, each
\* as its 16-bit halves << hi, lo >>: a read takes the first.  The result is
\* the value returned and the device as the call leaves it.
mkseed(seed, ofs, rot, dev, charSigned) ==
    IF SeedEmpty(seed)
    THEN [value |-> rotl(ZeroExt(Bits(dev[1][2], 16) \o Bits(dev[1][1], 16), Len(ofs)), rot),
          device |-> Tail(dev)]
    ELSE [value |-> Accumulate(seed, ofs, rot, charSigned), device |-> dev]

\* ------------------------------------------------------------ std::mt19937
\* The 32-bit Mersenne Twister of ISO C++ [rand.eng.mers], which the program
\* takes from <random>: w = 32, n = 624, m = 397, r = 31, a = 0x9908b0df,
\* u = 11, d = 0xffffffff, s = 7, b = 0x9d2c5680, t = 15, c = 0xefc60000,
\* l = 18, f = 1812433253.

\* The 32-bit word with the 16-bit halves hi and lo.
Word32(hi, lo) == Bits(lo, 16) \o Bits(hi, 16)

\* The halves <<hi, lo>> of the low 32 bits of a word.
Halves(b) == << Val(SubSeq(ZeroExt(b, 32), 17, 32)), Val(SubSeq(ZeroExt(b, 32), 1, 16)) >>

\* A word as its 16-bit limbs, least significant first.
Limbs(b) == [k \in 1..(Len(b) \div 16) |-> Val(SubSeq(b, 16 * k - 15, 16 * k))]

\* x ^ (x >> 30) on halves: the two top bits are folded into the two low bits.
XorShr30(x) ==
    LET t == x[1] \div 16384
        l == x[2]
        b0 == ((l % 2) + (t % 2)) % 2
        b1 == (((l \div 2) % 2) + (t \div 2)) % 2
    IN  << x[1], (l - (l % 4)) + 2 * b1 + b0 >>

\* (1812433253 * y + i) mod 2^32 on halves.  1812433253 is 0x6C078965, with
\* the halves 27655 and 35173; a factor is split where the product would
\* pass 2^31.
MulAdd(y, i) ==
    LET p0 == (y[2] % 256) * 35173
        p1 == (y[2] \div 256) * 35173
        s == p0 + (p1 % 256) * 256
        lo == (s % 65536) + i
        hx == (y[1] % 256) * 35173 + (((y[1] \div 256) * 35173) % 256) * 256
        hi == (s \div 65536) + (p1 \div 256) + hx + ((y[2] * 27655) % 65536)
              + (lo \div 65536)
    IN  << hi % 65536, lo % 65536 >>

RECURSIVE SeedWords(_, _, _)
\* The state words x[i..n] that seed(value) sets, given x[i-1] = prev:
\* x[i] = (1812433253 * (x[i-1] ^ (x[i-1] >> 30)) + i) mod 2^32.  The range
\* is halved so that the evaluation stays shallow.
SeedWords(prev, i, n) ==
    IF n < i THEN << >>
    ELSE IF n = i THEN << MulAdd(XorShr30(prev), i) >>
    ELSE LET m == (i + n) \div 2
             a == SeedWords(prev, i, m)
         IN  a \o SeedWords(a[Len(a)], m + 1, n)

\* How many outputs of one engine the model can take: generate_guid takes
\* at most five (one for the next engine's offset, four bytes).
MaxDraws == 5

\* What seed(value) keeps of a value of the wider result_type: value mod 2^32.
EngineSeed(value) == Halves(value)

\* mt19937(value): the engine after seed(value), value taken modulo 2^32.
\* Of the 624 state words the model keeps those the first MaxDraws outputs
\* read, x[0..MaxDraws] and x[397..397+MaxDraws-1], and the count p of
\* outputs taken.
Mt19937(value) ==
    LET x0 == EngineSeed(value)
        all == << x0 >> \o SeedWords(x0, 1, 397 + MaxDraws - 1)
    IN  [lo |-> SubSeq(all, 1, MaxDraws + 1),
         hi |-> SubSeq(all, 398, 397 + MaxDraws),
         p |-> 0]

\* The tempering of one state word.
Temper(z) ==
    LET y1 == BXor(z, Shr(z, 11))
        y2 == BXor(y1, BAnd(Shl(y1, 7), Word32(40236, 22144)))
        y3 == BXor(y2, BAnd(Shl(y2, 15), Word32(61382, 0)))
    IN  BXor(y3, Shr(y3, 18))

\* The value the engine's operator() returns: output number e.p + 1.
MtOutput(e) ==
    LET k == e.p + 1
        xk == Word32(e.lo[k][1], e.lo[k][2])
        xk1 == Word32(e.lo[k + 1][1], e.lo[k + 1][2])
        xm == Word32(e.hi[k][1], e.hi[k][2])
        y == [j \in 1..32 |-> IF j = 32 THEN xk[j] ELSE xk1[j]]
        mag == IF y[1] = 1 THEN Word32(39176, 45279) ELSE Zero(32)
    IN  Temper(BXor(BXor(xm, Shr(y, 1)), mag))

\* The engine after operator().
MtAdvance(e) == [e EXCEPT !.p = e.p + 1]

\* The engine a default-constructed mt19937 is: seeded with default_seed, 5489.
DefaultEngine == Mt19937(Bits(5489, 32))

\* ------------------------------------------------------------ to_string

\* One digit of the "uppercase << hex" conversion, as its character code.
HexChar(d) == IF d < 10 THEN 48 + d ELSE 65 + (d - 10)

RECURSIVE HexDigits(_)
\* The digits of the hex conversion of a non-negative int: no leading zeros.
HexDigits(n) == IF n < 16 THEN << HexChar(n) >> ELSE Append(HexDigits(n \div 16), HexChar(n % 16))

RECURSIVE PadLeft(_, _, _)
\* setw(w) with setfill(fill): a shorter field is filled on the left.
PadLeft(str, w, fill) == IF Len(str) >= w THEN str ELSE PadLeft(<< fill >> \o str, w, fill)

\* ss << setfill('0') << setw(2) << uppercase << hex << int(e).
HexByte(e) == PadLeft(HexDigits(e), 2, 48)

\* The switch with its last case label at 12.
HyphenAfterShifted(i) == i \in {4, 6, 8, 12}

\* The switch(++i) of to_string: a "-" follows the 4th, 6th, 8th, 10th byte.
HyphenAfter(i) == i \in {4, 6, 8, 10}

RECURSIVE ToStringLoop(_, _, _)
\* The for loop of to_string, i bytes already written to ss.
ToStringLoop(data, i, ss) ==
    IF i >= Len(data) THEN ss
    ELSE LET ss1 == ss \o HexByte(data[i + 1])
         IN  ToStringLoop(data, i + 1, IF HyphenAfter(i + 1) THEN Append(ss1, 45) ELSE ss1)

\* to_string(data).
to_string(data) == ToStringLoop(data, 0, << >>)

\* ------------------------------------------------------------ generate_guid

\* The rotations with the last two exchanged.
SeedRotSwapped(k) == << 0, 7, 13, 11 >>[k + 1]

\* The rotation of the mkseed call that seeds mt[k].
SeedRot(k) == << 0, 7, 11, 13 >>[k + 1]

\* The index (i++) & 0x3: that of i before the increment.
EngineIndexPost(i) == (i - 1) % 4

\* The index (++i) & 0x3, i already incremented.
EngineIndex(i) == i % 4

\* typename guid_data_t::value_type(v): the low 8 bits of an engine output,
\* given as its halves.
ToByte(v) == v[2] % 256

\* Runs of random_device()(): the values, as halves << hi, lo >>, that
\* successive reads return.  The second row holds 0xffffffff and the fourth
\* 0 throughout; the others hold values read from the device.  With the
\* first four values of the first row the program on a 64-bit seed_type
\* printed AFE9DE44-96C5-D5C7-9D6D-8065747AD7AD.
DeviceRuns ==
    <<
       << << 8531, 42641 >>, << 50418, 25294 >>, << 23704, 39743 >>, << 12873, 63866 >>,
          << 22585, 12482 >>, << 50867, 40638 >>, << 37151, 32335 >>, << 61255, 15176 >>,
          << 45737, 18098 >>, << 47459, 8540 >>, << 46323, 33566 >>, << 15860, 438 >> >>,
       << << 65535, 65535 >>, << 65535, 65535 >>, << 65535, 65535 >>, << 65535, 65535 >>,
          << 65535, 65535 >>, << 65535, 65535 >>, << 65535, 65535 >>, << 65535, 65535 >>,
          << 65535, 65535 >>, << 65535, 65535 >>, << 65535, 65535 >>, << 65535, 65535 >> >>,
       << << 39468, 410 >>, << 54348, 35951 >>, << 33760, 40635 >>, << 3113, 62400 >>,
          << 5993, 40052 >>, << 36604, 26449 >>, << 45486, 8989 >>, << 53589, 11536 >>,
          << 1950, 60089 >>, << 17806, 29876 >>, << 44399, 31352 >>, << 54478, 7587 >> >>,
       << << 0, 0 >>, << 0, 0 >>, << 0, 0 >>, << 0, 0 >>,
          << 0, 0 >>, << 0, 0 >>, << 0, 0 >>, << 0, 0 >>,
          << 0, 0 >>, << 0, 0 >>, << 0, 0 >>, << 0, 0 >> >>,
       << << 12360, 35378 >>, << 9854, 63363 >>, << 18401, 16255 >>, << 42717, 3853 >>,
          << 52666, 37248 >>, << 17073, 16099 >>, << 18838, 2301 >>, << 37926, 3624 >>,
          << 7334, 59128 >>, << 27435, 53484 >>, << 54837, 33324 >>, << 49387, 16674 >> >>,
       << << 8334, 8739 >>, << 33435, 27502 >>, << 95, 25014 >>, << 5660, 15720 >>,
          << 54259, 42957 >>, << 15807, 41896 >>, << 38743, 16555 >>, << 40498, 17059 >>,
          << 59183, 21822 >>, << 49347, 35958 >>, << 37825, 28910 >>, << 45648, 58561 >> >>,
       << << 63928, 27136 >>, << 61488, 16827 >>, << 5391, 64426 >>, << 18887, 19574 >>,
          << 39210, 39331 >>, << 15624, 20835 >>, << 1575, 20131 >>, << 60814, 4491 >>,
          << 36238, 58581 >>, << 56777, 62626 >>, << 53597, 1725 >>, << 23672, 28817 >> >>,
       << << 47819, 56443 >>, << 47569, 49851 >>, << 5218, 53863 >>, << 53381, 3769 >>,
          << 13452, 44746 >>, << 15375, 3485 >>, << 42427, 18274 >>, << 38652, 15137 >>,
          << 44343, 60379 >>, << 43655, 25819 >>, << 63555, 40758 >>, << 22710, 53470 >> >>,
       << << 48037, 21181 >>, << 29727, 5700 >>, << 22712, 22171 >>, << 44954, 25508 >>,
          << 59470, 9807 >>, << 59180, 26817 >>, << 41700, 1807 >>, << 59299, 3491 >>,
          << 58153, 34861 >>, << 31275, 61622 >>, << 42060, 28833 >>, << 56672, 49146 >> >>,
       << << 59463, 6383 >>, << 4924, 20850 >>, << 43768, 49947 >>, << 49360, 47927 >>,
          << 43313, 52745 >>, << 32904, 10655 >>, << 10606, 19761 >>, << 6760, 16242 >>,
          << 29236, 18433 >>, << 56568, 26787 >>, << 47309, 57983 >>, << 61749, 28969 >> >>,
       << << 50725, 15904 >>, << 25815, 9201 >>, << 44317, 8009 >>, << 9379, 64024 >>,
          << 33830, 17030 >>, << 42602, 28456 >>, << 51134, 64590 >>, << 36634, 37083 >>,
          << 28563, 40494 >>, << 2216, 52065 >>, << 35643, 58776 >>, << 11607, 49287 >> >>,
       << << 2534, 7609 >>, << 46000, 5971 >>, << 62443, 43909 >>, << 63782, 54298 >>,
          << 24924, 63993 >>, << 61189, 42059 >>, << 769, 37793 >>, << 31685, 60734 >>,
          << 57648, 60573 >>, << 14989, 41707 >>, << 29786, 29947 >>, << 17756, 38791 >> >>
    >>

\* How many of the runs main is started with, how many the concurrent calls,
\* and how many values of a run the device holds: enough for two lines of
\* main.  A run of main that would print more lines stops where the device
\* is used up.
MaxRuns == 12

CallRuns == 3

DeviceLen == 9

\* The k-th value of run j; past the rows of DeviceRuns, a value made from
\* j and k.
DeviceSample(j, k) ==
    IF j <= Len(DeviceRuns) /\ k <= Len(DeviceRuns[j]) THEN DeviceRuns[j][k]
    ELSE << (j * 7419 + k) % 65536, (j * 47547 + k * 10963) % 65536 >>

\* The first n devices a specification may start from.  In the code a read
\* returns any 32-bit value: every action takes whatever value the device
\* holds.
DeviceInputs(n) == { [k \in 1..DeviceLen |-> DeviceSample(j, k)] : j \in 1..n }

\* The frame of a generate_guid call as it is entered: four default
\* constructed engines, a zeroed guid_data_t, i = 0.  draws, ofs, ent and
\* seeds record what the call did: the engine outputs taken (engine, number
\* of the output, the halves of the value), the offset passed to each mkseed
\* call (halves), the value each random_device read returned (halves), and
\* what each mkseed call returned (limbs).
NewFrame(seed) ==
    [pc |-> "seed", seed |-> seed,
     mt |-> [k \in 0..3 |-> DefaultEngine],
     data |-> [k \in 1..16 |-> 0], i |-> 0,
     draws |-> << >>, ofs |-> << >>, ent |-> << >>, seeds |-> << >>]

IdleFrame == [pc |-> "idle"]

VARIABLES
    width,        \* bits of seed_type, uint_fast32_t: 32 or 64 by platform
    charSigned,   \* whether plain char is signed on the platform
    fr,           \* the frames of the generate_guid calls, by thread
    results,      \* <<seed, data>> of every generate_guid call that returned
    ncall,        \* how many generate_guid calls each thread has made
    device,       \* the values random_device()() has yet to return, in order
    pc, argv, arg, num_outputs, out, err, status,   \* main
    fn, inp, outp                                    \* a function applied on its own

build == << width, charSigned >>
mainVars == << pc, argv, arg, num_outputs, out, err, status >>
fnVars == << fn, inp, outp >>
vars == << build, fr, results, ncall, device, mainVars, fnVars >>

\* mt[k]() in frame f: the frame after the call, the output recorded.
Draw(f, k) ==
    [f EXCEPT !.mt[k] = MtAdvance(f.mt[k]),
              !.draws = Append(f.draws, << k, f.mt[k].p + 1, Halves(MtOutput(f.mt[k])) >>)]

\* mt[k] = mt19937(mkseed(seed, ofs, SeedRot(k))) for k = Len(f.seeds), where
\* ofs is SEED_OFFSET for k = 0 and mt[k-1]() otherwise, with the device dev:
\* the frame and the device after it.  ent records what was taken from the
\* device.
SeedEngine(f, dev) ==
    LET k == Len(f.seeds)
        g == IF k = 0 THEN f ELSE Draw(f, k - 1)
        ofs == IF k = 0 THEN Bits(SEED_OFFSET, width)
               ELSE ZeroExt(Word32(g.draws[Len(g.draws)][3][1], g.draws[Len(g.draws)][3][2]), width)
        s == mkseed(f.seed, ofs, SeedRot(k), dev, charSigned)
    IN  [frame |-> [g EXCEPT !.mt[k] = Mt19937(s.value),
                             !.ofs = Append(g.ofs, Halves(ofs)),
                             !.ent = g.ent \o SubSeq(dev, 1, Len(dev) - Len(s.device)),
                             !.seeds = Append(g.seeds, Limbs(s.value)),
                             !.pc = IF k = 3 THEN "fill" ELSE "seed"],
         device |-> s.device]

\* One round of "for(auto& e:data) e = value_type(mt[(++i) & 0x3]())".
FillByte(f) ==
    LET i1 == f.i + 1
        g == Draw(f, EngineIndex(i1))
    IN  [g EXCEPT !.i = i1,
                  !.data[i1] = ToByte(g.draws[Len(g.draws)][3]),
                  !.pc = IF i1 = 16 THEN "return" ELSE "fill"]

\* Whether the device dev holds the value mkseed(seed, ...) reads, if it
\* reads one: the device of the model is a run of finite length.
Covers(dev, seed) == SeedEmpty(seed) => Len(dev) > 0

\* The steps of a generate_guid call in thread t.  A call that reads the
\* device takes no step once the run is used up; a call that does not read
\* it goes on whatever the device holds.
GenSeed(t) ==
    /\ fr[t].pc = "seed"
    /\ Covers(device, fr[t].seed)
    /\ LET r == SeedEngine(fr[t], device)
       IN  /\ fr' = [fr EXCEPT ![t] = r.frame]
           /\ device' = r.device

GenFill(t) ==
    /\ fr[t].pc = "fill"
    /\ fr' = [fr EXCEPT ![t] = FillByte(fr[t])]
    /\ UNCHANGED device

\* generate_guid returns in thread t: the call is recorded.
GenReturn(t) ==
    /\ fr[t].pc = "return"
    /\ results' = Append(results, << fr[t].seed, fr[t].data >>)
    /\ fr' = [fr EXCEPT ![t] = IdleFrame]
    /\ UNCHANGED device

\* ------------------------------------------------------------ main

\* The strings of the program are sequences of character codes:
\* "-" 45, "/" 47, "0".."9" 48..57, "=" 61, "?" 63, " " 32.
IsDigit(c) == c \in 48..57

RECURSIVE Join(_)
\* arguments<string>(argc, argv): argv[1..] joined by single spaces; args
\* is argv without the program name.
Join(args) ==
    IF Len(args) = 0 THEN << >>
    ELSE IF Len(args) = 1 THEN args[1]
    ELSE args[1] \o << 32 >> \o Join(Tail(args))

arguments(args) == Join(args)

\* arg.find("-n") == 0.
StartsWithDashN(a) == Len(a) >= 2 /\ a[1] = 45 /\ a[2] = 110

\* arg.find_first_of("0123456789"): the 1-based index, 0 for npos.
FindFirstDigit(a) ==
    IF \E k \in 1..Len(a) : IsDigit(a[k])
    THEN CHOOSE k \in 1..Len(a) : IsDigit(a[k]) /\ \A j \in 1..(k - 1) : ~IsDigit(a[j])
    ELSE 0

\* A long of 64 bits as four 16-bit limbs, least significant first, and the
\* largest long.
LONG_MAX == << 65535, 65535, 65535, 32767 >>

\* One digit more in the conversion: v * 10 + d as five limbs, the fifth
\* holding what does not fit in 64 bits.
LongTimes10Plus(v, d) ==
    LET l1 == v[1] * 10 + d
        l2 == v[2] * 10 + (l1 \div 65536)
        l3 == v[3] * 10 + (l2 \div 65536)
        l4 == v[4] * 10 + (l3 \div 65536)
    IN  << l1 % 65536, l2 % 65536, l3 % 65536, l4 % 65536, l4 \div 65536 >>

RECURSIVE AtolFrom(_, _, _, _)
\* std::atol on the text from index k, which starts with a digit: the run
\* of digits is converted, anything after it ignored.  v is the value so
\* far modulo 2^64, over tells whether it has passed LONG_MAX.  The result
\* is the set of values the call may return: the number when a long can
\* hold it; beyond that the behaviour is undefined, and the library either
\* stops at LONG_MAX (atol as strtol, glibc) or returns the digits' value
\* modulo 2^64 (atol as a plain digit loop).
AtolFrom(a, k, v, over) ==
    IF k > Len(a) \/ ~IsDigit(a[k])
    THEN IF over THEN { LONG_MAX, v } ELSE { v }
    ELSE LET n == LongTimes10Plus(v, a[k] - 48)
         IN  AtolFrom(a, k + 1, SubSeq(n, 1, 4), over \/ n[5] > 0 \/ n[4] >= 32768)

\* The conversion of a long to int in "num_outputs = std::atol(...)": the
\* low 32 bits, read as a two's complement number.
LongToInt(v) ==
    IF v[2] >= 32768 THEN (v[2] - 65536) * 65536 + v[1] ELSE v[2] * 65536 + v[1]

\* main up to its output loop: the argument string is built and examined.
MainParse ==
    /\ pc = "start"
    /\ LET a == arguments(argv)
           pos == FindFirstDigit(a)
       IN  IF Len(a) = 0
           THEN /\ arg' = a /\ num_outputs' = 1 /\ pc' = "loop"
                /\ UNCHANGED << out, err, status >>
           ELSE IF StartsWithDashN(a)
           THEN IF pos = 0
                THEN /\ err' = Append(err, "Invalid option -n, missing number of output lines.")
                     /\ status' = 1 /\ pc' = "exit" /\ arg' = a
                     /\ UNCHANGED << out, num_outputs >>
                ELSE /\ \E v \in AtolFrom(a, pos, << 0, 0, 0, 0 >>, FALSE) :
                           num_outputs' = LongToInt(v)
                     /\ arg' = << >> /\ pc' = "loop"
                     /\ UNCHANGED << out, err, status >>
           ELSE IF a \in { << 45, 45, 118, 101, 114, 115, 105, 111, 110 >>, << 45, 118 >> }
           THEN /\ out' = Append(out, [kind |-> "version", text |-> << >>]) /\ status' = 0 /\ pc' = "exit"
                /\ arg' = a /\ UNCHANGED << err, num_outputs >>
           ELSE IF a \in { << 45, 45, 104, 101, 108, 112 >>, << 45, 104 >>, << 47, 63 >> }
           THEN /\ out' = Append(out, [kind |-> "usage", text |-> << >>]) /\ status' = 0 /\ pc' = "exit"
                /\ arg' = a /\ UNCHANGED << err, num_outputs >>
           ELSE IF a[1] = 45
           THEN /\ err' = Append(err, "Invalid option") /\ status' = 1 /\ pc' = "exit"
                /\ arg' = a /\ UNCHANGED << out, num_outputs >>
           ELSE /\ arg' = a /\ num_outputs' = 1 /\ pc' = "loop"
                /\ UNCHANGED << out, err, status >>
    /\ UNCHANGED << build, fr, results, ncall, device, argv, fnVars >>

\* How a process ends that a trap on signed overflow stops: killed by
\* SIGABRT (-6, -ftrapv) or SIGILL (-4, a sanitizer that traps), or left
\* with the status 1 (a sanitizer that does not recover).
TrapStatus == { -6, -4, 1 }

\* --num_outputs on an int: what it may do, << "value", the new value >> or
\* << "trap", how the process ends >>.  At INT_MIN the decrement is
\* undefined: a default build (g++ -O0 to -Os) wraps to INT_MAX, a build
\* that traps signed overflow ends the process there.
Decrement(n) ==
    IF n = -2147483647 - 1
    THEN { << "value", 2147483647 >> } \cup { << "trap", s >> : s \in TrapStatus }
    ELSE { << "value", n - 1 >> }

\* "while(--num_outputs >= 0)": the test, and the call of generate_guid(arg)
\* in the body or "return 0" after the loop.
MainLoop ==
    /\ pc = "loop"
    /\ \E d \in Decrement(num_outputs) :
          IF d[1] = "trap"
          THEN /\ pc' = "aborted" /\ status' = d[2]
               /\ UNCHANGED << num_outputs, fr >>
          ELSE /\ num_outputs' = d[2]
               /\ IF d[2] >= 0
                  THEN /\ fr' = [fr EXCEPT ![1] = NewFrame(arg)]
                       /\ pc' = "call"
                       /\ UNCHANGED status
                  ELSE /\ status' = 0 /\ pc' = "exit"
                       /\ UNCHANGED fr
    /\ UNCHANGED << build, results, ncall, device, argv, arg, out, err, fnVars >>

\* The steps of the generate_guid call of the loop body.
MainGenSeed ==
    /\ pc = "call" /\ GenSeed(1)
    /\ UNCHANGED << build, results, ncall, mainVars, fnVars >>

MainGenFill ==
    /\ pc = "call" /\ GenFill(1)
    /\ UNCHANGED << build, results, ncall, mainVars, fnVars >>

\* cout << to_string(<the returned data>) << "\n".
MainPrint ==
    /\ pc = "call" /\ GenReturn(1)
    /\ out' = Append(out, [kind |-> "guid", text |-> to_string(fr[1].data)])
    /\ pc' = "loop"
    /\ UNCHANGED << build, ncall, argv, arg, num_outputs, err, status, fnVars >>

\* return from main.
MainExit ==
    /\ pc = "exit"
    /\ pc' = "done"
    /\ UNCHANGED << build, fr, results, ncall, device, argv, arg, num_outputs, out, err,
                    status, fnVars >>

\* ------------------------------------------------------------ the program

Widths == {32, 64}

Threads == {1, 2}

\* Command lines, argv[1..]: none; the seeds "test", "a b", "a" and the
\* two bytes of a UTF-8 e-acute; "-n 1", "-n2", "-n=1", "-n0", "-n" "1" "9",
\* "-n"; "-n 4294967297"; "-n 18446744073709551617"; "-n 2147483648"; "-v",
\* "--version", "--help", "-h", "/?", "-x".
Argvs ==
    { << >>,
      << << 116, 101, 115, 116 >> >>,
      << << 97 >>, << 98 >> >>,
      << << 97 >> >>,
      << << 195, 169 >> >>,
      << << 45, 110 >>, << 49 >> >>,
      << << 45, 110, 50 >> >>,
      << << 45, 110, 61, 49 >> >>,
      << << 45, 110, 48 >> >>,
      << << 45, 110 >>, << 49 >>, << 57 >> >>,
      << << 45, 110 >> >>,
      << << 45, 110 >>, << 52, 50, 57, 52, 57, 54, 55, 50, 57, 55 >> >>,
      << << 45, 110 >>, << 49, 56, 52, 52, 54, 55, 52, 52, 48, 55, 51, 55, 48, 57,
                           53, 53, 49, 54, 49, 55 >> >>,
      << << 45, 110 >>, << 50, 49, 52, 55, 52, 56, 51, 54, 52, 56 >> >>,
      << << 45, 118 >> >>,
      << << 45, 45, 118, 101, 114, 115, 105, 111, 110 >> >>,
      << << 45, 45, 104, 101, 108, 112 >> >>,
      << << 45, 104 >> >>,
      << << 47, 63 >> >>,
      << << 45, 120 >> >> }

\* The values every specification starts from; each one sets its own part.
InitBuild ==
    /\ width \in Widths
    /\ charSigned \in BOOLEAN

InitIdle ==
    /\ fr = [t \in Threads |-> IdleFrame]
    /\ results = << >>
    /\ ncall = [t \in Threads |-> 0]

InitNoFn == fn = "none" /\ inp = << >> /\ outp = << >>

InitNoDevice == device = << >>

\* The program as started from a command line.
Init ==
    /\ InitBuild /\ InitIdle /\ InitNoFn
    /\ device \in DeviceInputs(MaxRuns)
    /\ argv \in Argvs
    /\ pc = "start" /\ arg = << >> /\ num_outputs = 1
    /\ out = << >> /\ err = << >> /\ status = -1

Next ==
    \/ MainParse
    \/ MainLoop
    \/ MainGenSeed
    \/ MainGenFill
    \/ MainPrint
    \/ MainExit

Spec == Init /\ [][Next]_vars

\* ------------------------------------------------------------ concurrent calls
\* generate_guid called from two threads.  The n-th call of thread t takes
\* its seed from Program[t][n]: thread 1 calls with the byte 0x00 or "a" and
\* then with the empty seed, thread 2 calls once with the byte 0x00 or "a".
Program ==
    [t \in Threads |->
        IF t = 1 THEN << { << 0 >>, << 97 >> }, { << >> } >>
        ELSE << { << 0 >>, << 97 >> } >>]

Call(t) ==
    /\ fr[t].pc = "idle"
    /\ ncall[t] < Len(Program[t])
    /\ \E seed \in Program[t][ncall[t] + 1] : fr' = [fr EXCEPT ![t] = NewFrame(seed)]
    /\ ncall' = [ncall EXCEPT ![t] = ncall[t] + 1]
    /\ UNCHANGED << build, results, device, mainVars, fnVars >>

CallSeed(t) == GenSeed(t) /\ UNCHANGED << build, results, ncall, mainVars, fnVars >>

CallFill(t) == GenFill(t) /\ UNCHANGED << build, results, ncall, mainVars, fnVars >>

CallReturn(t) == GenReturn(t) /\ UNCHANGED << build, ncall, mainVars, fnVars >>

InitNoMain ==
    /\ pc = "none" /\ argv = << >> /\ arg = << >> /\ num_outputs = 1
    /\ out = << >> /\ err = << >> /\ status = -1

\* No seed of Program holds a byte above 0x7f: the signedness of char plays
\* no part here, and one is taken.
InitCalls ==
    /\ width \in Widths /\ charSigned = TRUE
    /\ InitIdle /\ InitNoMain /\ InitNoFn
    /\ device \in DeviceInputs(CallRuns)

NextCalls ==
    \E t \in Threads :
        \/ Call(t)
        \/ CallSeed(t)
        \/ CallFill(t)
        \/ CallReturn(t)

SpecCalls == InitCalls /\ [][NextCalls]_vars

\* ------------------------------------------------------------ functions on their own
\* A function of the program applied to one input: fn names it, inp is the
\* input, outp the result once the function has been applied.

OneHot(w) == { [k \in 1..w |-> IF k = j THEN 1 ELSE 0] : j \in 1..w }

\* Words of uint8_t (all of them), uint32_t and uint64_t.
SampleWords(w) ==
    OneHot(w) \cup { Zero(w), [k \in 1..w |-> 1], Bits(SEED_OFFSET, w) }

RotlWords == { Bits(n, 8) : n \in 0..255 } \cup SampleWords(32) \cup SampleWords(64)

\* The rotation amounts tried are -MaxShift..MaxShift.
MaxShift == 70

InitRotl ==
    /\ width = 64 /\ charSigned = TRUE
    /\ InitIdle /\ InitNoMain /\ InitNoDevice
    /\ fn = "rotl"
    /\ inp \in [x : RotlWords, s : (-MaxShift)..MaxShift]
    /\ outp = << >>

ApplyRotl ==
    /\ fn = "rotl" /\ outp = << >>
    /\ outp' = << rotl(inp.x, inp.s) >>
    /\ UNCHANGED << build, fr, results, ncall, device, mainVars, fn, inp >>

SpecRotl == InitRotl /\ [][ApplyRotl]_vars

\* 16-byte arrays: every byte value comes up at every index.
GuidInputs == { [i \in 1..16 |-> (k + 37 * i) % 256] : k \in 0..255 }

InitToString ==
    /\ width = 64 /\ charSigned = TRUE
    /\ InitIdle /\ InitNoMain /\ InitNoDevice
    /\ fn = "to_string"
    /\ inp \in GuidInputs
    /\ outp = << >>

ApplyToString ==
    /\ fn = "to_string" /\ outp = << >>
    /\ outp' = << to_string(inp) >>
    /\ UNCHANGED << build, fr, results, ncall, device, mainVars, fn, inp >>

SpecToString == InitToString /\ [][ApplyToString]_vars

\* Non-empty seeds: the bytes 0x00, "a", 0x80, 0xff, "test", the UTF-8
\* e-acute, "abc".
FoldSeeds ==
    { << 0 >>, << 97 >>, << 128 >>, << 255 >>, << 116, 101, 115, 116 >>,
      << 195, 169 >>, << 97, 98, 99 >> }

\* Offsets: SEED_OFFSET, 1, 0xffffffff, and 0xe5ccf5f8 (an engine output).
FoldOffsets ==
    { Bits(SEED_OFFSET, 32), Bits(1, 32), Word32(65535, 65535), Word32(58828, 62968) }

Rotations == {0, 7, 11, 13}

\* mkseed on a non-empty seed, for both widths of seed_type at once.
InitMkseed ==
    /\ width = 64 /\ charSigned \in BOOLEAN
    /\ InitIdle /\ InitNoMain /\ InitNoDevice
    /\ fn = "mkseed"
    /\ inp \in [seed : FoldSeeds, ofs : FoldOffsets, rot : Rotations]
    /\ outp = << >>

ApplyMkseed ==
    /\ fn = "mkseed" /\ outp = << >>
    /\ outp' = << [w \in Widths |->
                     mkseed(inp.seed, ZeroExt(inp.ofs, w), inp.rot, << >>, charSigned).value] >>
    /\ UNCHANGED << build, fr, results, ncall, device, mainVars, fn, inp >>

SpecMkseed == InitMkseed /\ [][ApplyMkseed]_vars

\* mkseed on the empty seed for two values of the entropy source, and the
\* engine seed each gives, for both widths of seed_type at once.
InitEntropy ==
    /\ width = 64 /\ charSigned = TRUE
    /\ InitIdle /\ InitNoMain /\ InitNoDevice
    /\ fn = "entropy"
    /\ inp \in [e1 : SampleWords(32), e2 : SampleWords(32), rot : Rotations]
    /\ outp = << >>

ApplyEntropy ==
    /\ fn = "entropy" /\ outp = << >>
    /\ outp' = << [w \in Widths |->
                     [e \in {inp.e1, inp.e2} |->
                        EngineSeed(mkseed(<< >>, Bits(SEED_OFFSET, w), inp.rot, << Halves(e) >>,
                                           charSigned).value)]] >>
    /\ UNCHANGED << build, fr, results, ncall, device, mainVars, fn, inp >>

SpecEntropy == InitEntropy /\ [][ApplyEntropy]_vars

\* ------------------------------------------------------------ properties

\* a mod n, in 0..n-1, for any integer a.
Mod(a, n) == IF a >= 0 THEN a % n ELSE (n - ((-a) % n)) % n

\* The circular left rotation of x by k places: bit j of x moves to bit j + k.
RotateLeft(x, k) == [j \in 1..Len(x) |-> x[Mod(j - 1 - k, Len(x)) + 1]]

\* The rotation amounts of the four mkseed calls, in order.
R == << 0, 7, 11, 13 >>

Running(t) == fr[t].pc \in {"seed", "fill", "return"}

Min(a, b) == IF a < b THEN a ELSE b

\* C1: two generate_guid calls with the same non-empty seed return the same
\* 16 bytes, whatever calls ran before, between or interleaved with them;
\* and as far as two such calls have come, they have computed the same
\* engine seeds and written the same bytes: a call depends on no state but
\* its own.
C1_Determinism ==
    /\ \A a, b \in 1..Len(results) :
          (results[a][1] = results[b][1] /\ Len(results[a][1]) > 0)
             => results[a][2] = results[b][2]
    /\ \A t \in Threads :
          (Running(t) /\ Len(fr[t].seed) > 0) =>
             /\ \A a \in 1..Len(results) :
                   results[a][1] = fr[t].seed =>
                      \A j \in 1..fr[t].i : fr[t].data[j] = results[a][2][j]
             /\ \A u \in Threads :
                   (Running(u) /\ fr[u].seed = fr[t].seed) =>
                      /\ \A k \in 1..Min(Len(fr[t].seeds), Len(fr[u].seeds)) :
                            fr[t].seeds[k] = fr[u].seeds[k]
                      /\ \A j \in 1..Min(fr[t].i, fr[u].i) :
                            fr[t].data[j] = fr[u].data[j]

\* Two calls with the seed 0x00 have returned, one with the empty seed
\* between them.
C1_Witness ==
    /\ Len(results) = 3
    /\ results[1][1] = << 0 >> /\ results[2][1] = << >> /\ results[3][1] = << 0 >>

HexDigitChars == << 48, 49, 50, 51, 52, 53, 54, 55, 56, 57, 65, 66, 67, 68, 69, 70 >>

\* The index in the string of the first digit of byte k (1..16).
BytePos(k) == 2 * (k - 1) + Cardinality({ h \in {4, 6, 8, 10} : h < k }) + 1

\* C2: to_string returns 36 characters, a hyphen at exactly the 0-based
\* indices 8, 13, 18, 23, an uppercase hex digit everywhere else; byte k is
\* written as its two zero-padded digits, bytes grouped 4-2-2-2-6.
C2_Format ==
    (fn = "to_string" /\ outp # << >>) =>
        LET str == outp[1]
        IN  /\ Len(str) = 36
            /\ \A j \in 1..36 :
                  /\ (str[j] = 45) <=> (j - 1 \in {8, 13, 18, 23})
                  /\ (j - 1 \notin {8, 13, 18, 23}) => str[j] \in (48..57) \cup (65..70)
            /\ \A k \in 1..16 :
                  /\ str[BytePos(k)] = HexDigitChars[(inp[k] \div 16) + 1]
                  /\ str[BytePos(k) + 1] = HexDigitChars[(inp[k] % 16) + 1]

\* to_string was applied to an array with a byte below 0x10 (padded with a
\* zero) and a byte with a letter digit.
C2_Witness ==
    /\ fn = "to_string" /\ outp # << >>
    /\ \E k \in 1..16 : inp[k] < 16
    /\ \E k \in 1..16 : inp[k] % 16 >= 10

\* C3: rotl(x, s) is the circular left rotation of x by s mod N for an s of
\* any sign; rotl(x, 0) = x, rotl(x, N) = x, and
\* rotl(x, -s) = rotl(x, N - (s mod N)) for s >= 0.
C3_Rotl ==
    (fn = "rotl" /\ outp # << >>) =>
        LET x == inp.x
            s == inp.s
            N == Len(x)
        IN  /\ outp[1] = RotateLeft(x, Mod(s, N))
            /\ (s \in {0, N}) => outp[1] = x
            /\ (s <= 0) => outp[1] = rotl(x, N - Mod(-s, N))

\* rotl was applied to a 64-bit word with a negative amount beyond -64, and
\* to effect.
C3_Witness ==
    /\ fn = "rotl" /\ outp # << >>
    /\ Len(inp.x) = 64 /\ inp.s < -64
    /\ outp[1] # inp.x

\* C4 as claimed: the engine seed (the mkseed result modulo 2^32) of a
\* non-empty seed is the same for a seed_type of 32 and of 64 bits.
C4_Claim ==
    (fn = "mkseed" /\ outp # << >>) => EngineSeed(outp[1][32]) = EngineSeed(outp[1][64])

RECURSIVE FoldUnsigned(_, _, _)
\* acc = rotate_left(acc XOR ((acc << 8) OR b), rotation) over the bytes,
\* each b in 0..255 standing in the low 8 bits of the term.
FoldUnsigned(seed, acc, rot) ==
    IF Len(seed) = 0 THEN acc
    ELSE LET b == Head(seed)
             term == [j \in 1..Len(acc) |->
                        IF j <= 8 THEN (b \div (2 ^ (j - 1))) % 2 ELSE acc[j - 8]]
         IN  FoldUnsigned(Tail(seed), RotateLeft(BXor(acc, term), Mod(rot, Len(acc))), rot)

\* C5 as claimed: mkseed of a non-empty seed is the left-to-right fold from
\* the offset with acc = rotl(acc XOR ((acc << 8) OR b), rotation), every
\* byte b taken as its unsigned value.
C5_Claim ==
    (fn = "mkseed" /\ outp # << >>) =>
        \A w \in Widths : outp[1][w] = FoldUnsigned(inp.seed, ZeroExt(inp.ofs, w), inp.rot)

RECURSIVE Decimal(_)
\* The decimal digits of n >= 0, as character codes.
Decimal(n) == IF n < 10 THEN << 48 + n >> ELSE Append(Decimal(n \div 10), 48 + (n % 10))

RECURSIVE DigitRun(_, _)
\* The digits of a from index k up to the first character that is none.
DigitRun(a, k) ==
    IF k > Len(a) \/ a[k] \notin 48..57 THEN << >> ELSE << a[k] >> \o DigitRun(a, k + 1)

RECURSIVE StripZeros(_)
StripZeros(d) == IF Len(d) > 1 /\ d[1] = 48 THEN StripZeros(Tail(d)) ELSE d

GuidLines == { j \in 1..Len(out) : out[j].kind = "guid" }

\* C6 as claimed: a command line that starts with -n and holds a number k
\* clears the seed, calls generate_guid with the empty seed and prints its
\* result exactly k times, and exits with 0; no argument, or a seed string,
\* prints exactly one line.
C6_Claim ==
    pc = "done" =>
        LET a == Join(argv)
            first == { k \in 1..Len(a) : a[k] \in 48..57 /\ \A j \in 1..(k - 1) : a[j] \notin 48..57 }
        IN  IF Len(a) >= 2 /\ a[1] = 45 /\ a[2] = 110 /\ first # {}
            THEN /\ status = 0
                 /\ arg = << >>
                 /\ \A c \in 1..Len(results) : results[c][1] = << >>
                 /\ Len(results) = Cardinality(GuidLines)
                 /\ \A k \in first : Decimal(Cardinality(GuidLines)) = StripZeros(DigitRun(a, k))
            ELSE (Len(a) = 0 \/ a[1] \notin {45, 47}) =>
                    (Cardinality(GuidLines) = 1 /\ Len(out) = 1 /\ status = 0)

\* C7: byte i (1..16) is the low 8 bits of the next output of engine
\* i mod 4: the engines are taken in the order 1,2,3,0 four times over, one
\* output per byte, four bytes from each engine, and the loop ends after
\* exactly 16 draws.
C7_FillOrder ==
    \A t \in Threads :
        (fr[t].pc \in {"fill", "return"}) =>
            LET f == fr[t]
                n == f.i
            IN  /\ n \in 0..16
                /\ (f.pc = "return") <=> (n = 16)
                /\ Len(f.draws) = 3 + n
                /\ \A j \in 1..n :
                      /\ f.draws[3 + j][1] = << 1, 2, 3, 0 >>[((j - 1) % 4) + 1]
                      /\ f.draws[3 + j][1] = j % 4
                      /\ f.data[j] = f.draws[3 + j][3][2] % 256
                /\ (n = 16) =>
                      \A k \in 0..3 : Cardinality({ j \in 1..16 : f.draws[3 + j][1] = k }) = 4

\* The fill loop of a call with the seed "test" has ended.
C7_Witness ==
    /\ fr[1].pc = "return" /\ fr[1].i = 16
    /\ fr[1].seed = << 116, 101, 115, 116 >>

\* The device as the (k+1)-th mkseed call of frame f found it, as far as the
\* call can have read it.
EntropyOf(f, k) == IF Len(f.seed) = 0 THEN << f.ent[k + 1] >> ELSE << >>

\* C8: engine 0 is seeded with mkseed(seed, SEED_OFFSET, 0) and engine k
\* (1..3) with mkseed(seed, first output of engine k-1, r_k), r = 7, 11, 13,
\* in this order; one output is taken from each of the engines 0, 1, 2 and
\* none from engine 3 before the fill loop, so that the bytes come from the
\* 2nd to 5th outputs of the engines 0, 1, 2 and the 1st to 4th of engine 3.
C8_Cascade ==
    \A t \in Threads :
        Running(t) =>
            LET f == fr[t]
                m == Len(f.seeds)
            IN  /\ Len(f.ofs) = m
                /\ (f.pc = "seed") <=> (m < 4)
                /\ Len(f.draws) = (IF m = 0 THEN 0 ELSE m - 1) + f.i
                /\ \A k \in 0..(m - 1) :
                      /\ f.ofs[k + 1] = IF k = 0 THEN Halves(Bits(SEED_OFFSET, 32))
                                        ELSE f.draws[k][3]
                      /\ (k >= 1) => (f.draws[k][1] = k - 1 /\ f.draws[k][2] = 1)
                      /\ f.seeds[k + 1] =
                            Limbs(mkseed(f.seed,
                                         ZeroExt(Word32(f.ofs[k + 1][1], f.ofs[k + 1][2]), width),
                                         R[k + 1], EntropyOf(f, k), charSigned).value)
                      /\ f.mt[k].lo[1] = << f.seeds[k + 1][2], f.seeds[k + 1][1] >>
                /\ \A j \in 1..f.i :
                      f.draws[3 + j][2] \in (IF f.draws[3 + j][1] = 3 THEN 1..4 ELSE 2..5)
                /\ (f.pc = "return") =>
                      \A k \in 0..3 :
                         { f.draws[3 + j][2] : j \in { i \in 1..16 : f.draws[3 + i][1] = k } }
                            = (IF k = 3 THEN 1..4 ELSE 2..5)

\* A call with the seed "a b" has seeded its four engines and filled the
\* 16 bytes.
C8_Witness ==
    /\ fr[1].pc = "return"
    /\ fr[1].seed = << 97, 32, 98 >>
    /\ Len(fr[1].seeds) = 4 /\ Len(fr[1].draws) = 19

EmptyResults == { c \in 1..Len(results) : results[c][1] = << >> }

\* The reads of the device the call under way in thread t has made.
ReadsOf(t) == IF Running(t) THEN Len(fr[t].ent) ELSE 0

RECURSIVE TotalReads(_)
\* Those of the calls under way in the threads S.
TotalReads(S) ==
    IF S = {} THEN 0
    ELSE LET t == CHOOSE y \in S : TRUE IN ReadsOf(t) + TotalReads(S \ {t})

\* C9: mkseed reads the entropy source if and only if the seed is empty.
\* With the empty seed each mkseed call reads it once and returns the value
\* rotated by the call's rotation, whatever the offset; with a non-empty
\* seed, the byte 0x00 too, it is never read and the result is the fold of
\* (seed, offset, rotation).  On the device: it has given up one value for
\* each mkseed call made with the empty seed and none else, and the values
\* a call got are those the device held, in order.
C9_BranchSelection ==
    /\ \A t \in Threads :
          Running(t) =>
              LET f == fr[t]
                  m == Len(f.seeds)
              IN  /\ Len(f.ent) = (IF Len(f.seed) = 0 THEN m ELSE 0)
                  /\ \A k \in 1..m :
                        f.seeds[k] =
                           Limbs(IF Len(f.seed) = 0
                                 THEN RotateLeft(ZeroExt(Word32(f.ent[k][1], f.ent[k][2]), width),
                                                 R[k])
                                 ELSE Accumulate(f.seed,
                                                 ZeroExt(Word32(f.ofs[k][1], f.ofs[k][2]), width),
                                                 R[k], charSigned))
    /\ Len(device) + TotalReads(Threads) + 4 * Cardinality(EmptyResults) = DeviceLen
    /\ \A t \in Threads :
          (/\ Running(t)
           /\ EmptyResults = {}
           /\ \A u \in Threads \ {t} : ReadsOf(u) = 0)
             => fr[t].ent \o device \in DeviceInputs(MaxRuns)

\* AFE9DE44-96C5-D5C7-9D6D-8065747AD7AD, the line of the first run.
ObservedLine ==
    << 65, 70, 69, 57, 68, 69, 52, 52, 45, 57, 54, 67, 53, 45, 68, 53, 67, 55,
       45, 57, 68, 54, 68, 45, 56, 48, 54, 53, 55, 52, 55, 65, 68, 55, 65, 68 >>

\* One call with the empty seed and one with the seed 0x00 have each made
\* their four mkseed calls; the first read the first four values of the
\* first run and, seed_type being 64 bits wide, has the bytes the program
\* printed.
C9_Witness ==
    /\ fr[1].pc = "return" /\ fr[1].seed = << >> /\ Len(fr[1].ent) = 4
    /\ fr[2].pc = "return" /\ fr[2].seed = << 0 >> /\ Len(fr[2].ent) = 0
    /\ width = 64 /\ fr[1].ent = SubSeq(DeviceRuns[1], 1, 4)
    /\ Len(device) = DeviceLen - 4
    /\ to_string(fr[1].data) = ObservedLine

\* C10 as claimed: two different values of the entropy source give two
\* different engine seeds, for each rotation and each width of seed_type.
C10_Claim ==
    (fn = "entropy" /\ outp # << >> /\ inp.e1 # inp.e2) =>
        \A w \in Widths : outp[1][w][inp.e1] # outp[1][w][inp.e2]

====
